---- MODULE Spec2Model ----
(***************************************************************************)
(* The zookeeper client of the master detector (detector/zkclient.go):     *)
(* the connect handshake with its session goroutine, the children watch    *)
(* with its self re-arming goroutine, and the list / data requests.        *)
(***************************************************************************)
EXTENDS Naturals, Integers, Sequences, FiniteSets, TLC

\* ------------------------------------------------------------------ bounds

MaxSessions == 2    \* sessions zk.Connect may open
MaxChains == 1      \* watchChildren calls of the owner that arm a watch
MaxFirings == 2     \* events the service delivers to one watch chain
MaxChildren == 3    \* children the service reports under one node

\* ------------------------------------------------------------- vocabulary

\* zkc.rootPath, and the paths the owner passes to watchChildren.
rootPath == "/mesos"
Paths == {".", "/a"}

\* zk.State values of a session event, one per case of the session
\* goroutine's switch.
States == {"Connecting", "Connected", "SyncConnected", "Disconnected",
           "Expired"}

\* zk.EventType values of a watch event; "NodeDeleted" stands for every
\* type other than zk.EventNodeChildrenChanged.
EventTypes == {"NodeChildrenChanged", "NodeDeleted"}

\* e.Err of an event: nil or an error.
Errs == {"nil", "EventErr"}

\* Child names as byte strings; the lists the service may report.
ChildLists == { << <<120>>, <<97>>, <<100>> >>,
                << <<100>>, <<97, 98>>, <<97>> >> }

\* The child names a node may have, and every list of at most MaxChildren
\* distinct ones, in any order: what zkc.conn.Children may return.
ChildNames == { <<97>>, <<100>>, <<120>>, <<97, 98>>, <<97, 120>>,
                <<100, 97>>, <<120, 97>>, <<97, 97>>, <<65>> }

ChildSeqs ==
    UNION { { c \in [1..n -> ChildNames] :
                \A i, j \in 1..n : i # j => c[i] # c[j] } :
            n \in 0..MaxChildren }

\* The payloads the service may hold at a node.
DataValues == {<<>>, <<109, 105>>}

VARIABLES
    connected,        \* zkc.connected
    conn,             \* zkc.conn: 0 is nil, else the session it belongs to
    childrenWatcher,  \* zkc.childrenWatcher # nil
    errorWatcher,     \* zkc.errorWatcher # nil
    sessions,         \* per zk.Connect session: its waitConnCh is closed
    connState,        \* e.State of the last event of zkc.conn's session
    cpc,              \* the owner: "idle", or "waiting" in connect's select
    timerFired,       \* time.After(connTimeout) of the waiting connect fired
    confirmed,        \* the session of the last connect reported Connected
                      \* or SyncConnected before that timer fired
    chains,           \* the watch goroutines, one record per owner call
    timedOut,         \* the last connect returned the timeout error
    step,             \* the last step: the call of the owner that returned
                      \* in it, the calls it made to the error watcher,
                      \* the children watcher, the connector and disconnect,
                      \* and the connector's reply
    crashed,          \* the process ended by a panic
    status,           \* driver.status
    stopped,          \* driver.stopped
    driverConnected,  \* driver.connected
    frameworkID,      \* driver.FrameworkInfo.Id ("": not set)
    lock,             \* the driver's lock: "free" or the activity holding it
    stopCh,           \* driver.stopCh, the stop signal: "open" or "closed"
    messenger,        \* driver.messenger: "new", "started" or "stopped"
    pc,               \* per calling activity: the driver call it is in
    dstep             \* the last step of the driver: the call that returned
                      \* in it and its status, the messages it sent, its
                      \* calls to the messenger and to the framework

detectorVars == <<connected, conn, childrenWatcher, errorWatcher, sessions,
                  connState, cpc, timerFired, confirmed, timedOut, chains,
                  step, crashed>>

driverVars == <<status, stopped, driverConnected, frameworkID, lock, stopCh,
                messenger, pc, dstep>>

vars == <<detectorVars, driverVars>>

watchers == <<childrenWatcher, errorWatcher>>
handshake == <<cpc, timerFired, confirmed, timedOut>>
link == <<sessions, connState>>

\* ---------------------------------------------------------- pure helpers

\* watchPath of watchChildren: rootPath, plus path unless it is "" or ".".
WatchPath(path) ==
    IF path # "" /\ path # "." THEN rootPath \o path ELSE rootPath

\* A step's calls: errs are the errors handed to errorOccured, in order, cb
\* the path handed to childrenChanged ("none": not called), req the request
\* sent through zkc.conn, disc whether disconnect was called.
Calls(errs, cb, req, disc) ==
    [errs |-> errs, cb |-> cb, req |-> req, disc |-> disc]

NoCalls == Calls(<<>>, "none", "none", FALSE)

\* if zkc.errorWatcher != nil { zkc.errorWatcher.errorOccured(zkc, err) }
Report(errs, err) == IF errorWatcher THEN Append(errs, err) ELSE errs

\* if e.Err != nil { ...errorOccured(zkc, e.Err) }
ReportEventErr(errs, err) == IF err # "nil" THEN Report(errs, err) ELSE errs

\* Byte-wise lexicographic order of two names (Go's string <).
RECURSIVE StrLess(_, _)
StrLess(a, b) ==
    IF b = <<>> THEN FALSE
    ELSE IF a = <<>> THEN TRUE
    ELSE IF Head(a) # Head(b) THEN Head(a) < Head(b)
    ELSE StrLess(Tail(a), Tail(b))

\* Insert name x into the ascending list s.
RECURSIVE Insert(_, _)
Insert(x, s) ==
    IF s = <<>> THEN <<x>>
    ELSE IF StrLess(x, Head(s)) THEN <<x>> \o s
    ELSE <<Head(s)>> \o Insert(x, Tail(s))

\* The call of sort.Strings left out.
SortStrings_None(s) == s

\* sort.Strings(children)
RECURSIVE SortStrings(_)
SortStrings(s) ==
    IF s = <<>> THEN <<>> ELSE Insert(Head(s), SortStrings(Tail(s)))

\* What a call of the owner returned: the call, its error ("ok": nil) and
\* its value.
Returned(op, res, val) == [op |-> op, res |-> res, val |-> val]

NoReturn == Returned("none", "ok", <<>>)

\* A step whose request the connector answered with reply (the children of
\* Children, the payload of Get).
Replied(r, c, reply) == [ret |-> r, calls |-> c, reply |-> reply]

Step(r, c) == Replied(r, c, <<>>)

\* ------------------------------------------- scheduler driver: vocabulary

\* mesos.Status values of the driver.
DRIVER_NOT_STARTED == "DRIVER_NOT_STARTED"
DRIVER_RUNNING == "DRIVER_RUNNING"
DRIVER_STOPPED == "DRIVER_STOPPED"
DRIVER_ABORTED == "DRIVER_ABORTED"

\* The activities that call the driver concurrently.
Callers == {"main", "other"}

\* The calls of the driver; Run is Start followed by Join.
Ops == {"Start", "Stop", "Abort", "Join", "LaunchTasks", "KillTask"}

\* The messages the messenger delivers to the driver; "Unknown" stands for
\* a message of no known type.
EventKinds == {"FrameworkRegistered", "FrameworkReregistered",
               "ResourceOffers", "Unknown"}

\* The framework ids and master ips such a message may carry.
FrameworkIDs == {"some-framework-id-uuid", "other-framework-id"}
MasterIps == {123456, 654321}

\* An activity's place in a driver call: at is "lock" (waiting for the
\* lock), "in" (in the call, holding the lock), "wait" (Join waiting for
\* the stop signal), "relock" and "end" (Join after the signal, without and
\* with the lock); run tells that the call is part of Run.
At(op, at, run, failover) ==
    [op |-> op, at |-> at, run |-> run, failover |-> failover]

Idle == At("none", "idle", FALSE, FALSE)

\* A step of the driver: by whom, the call ("JoinEnd": Join after its wait)
\* and the status it returned ("none": nothing returned in this step), the
\* messages sent with their outcome, the call to the messenger, the
\* callbacks of the framework.
DStep(by, op, ret, sent, msgr, cb) ==
    [by |-> by, op |-> op, ret |-> ret, sent |-> sent, msgr |-> msgr,
     cb |-> cb]

NoDStep == DStep("none", "none", "none", <<>>, "none", <<>>)

\* NewMesosSchedulerDriver: status NOT_STARTED, stopped, not connected; fid
\* is the id the framework info carries ("": none).
NewMesosSchedulerDriver(fid) ==
    /\ status = DRIVER_NOT_STARTED
    /\ stopped = TRUE
    /\ driverConnected = FALSE
    /\ frameworkID = fid
    /\ lock = "free"
    /\ stopCh = "open"
    /\ messenger = "new"
    /\ pc = [c \in Callers |-> Idle]
    /\ dstep = NoDStep

\* ------------------------------------------------------------------- Init

\* newZkClient: nothing connected, no watcher registered, no goroutine.
newZkClient ==
    /\ connected = FALSE
    /\ conn = 0
    /\ childrenWatcher = FALSE
    /\ errorWatcher = FALSE
    /\ sessions = <<>>
    /\ connState = "None"
    /\ cpc = "idle"
    /\ timerFired = FALSE
    /\ confirmed = FALSE
    /\ chains = <<>>
    /\ timedOut = FALSE
    /\ step = Step(NoReturn, NoCalls)
    /\ crashed = FALSE

\* A new detector and a new driver.
Init == newZkClient /\ NewMesosSchedulerDriver("")

\* The owner may call: the process is alive and no call of its is blocked.
OwnerIdle == ~crashed /\ cpc = "idle"

\* c.childrenWatcher = zkChildrenWatcherFunc(...)
SetChildrenWatcher ==
    /\ OwnerIdle
    /\ ~childrenWatcher
    /\ childrenWatcher' = TRUE
    /\ step' = Step(NoReturn, NoCalls)
    /\ UNCHANGED <<connected, conn, errorWatcher, link, handshake, chains,
                   crashed>>
    /\ UNCHANGED driverVars

\* c.errorWatcher = zkErrorWatcherFunc(...)
SetErrorWatcher ==
    /\ OwnerIdle
    /\ ~errorWatcher
    /\ errorWatcher' = TRUE
    /\ step' = Step(NoReturn, NoCalls)
    /\ UNCHANGED <<connected, conn, childrenWatcher, link, handshake,
                   chains, crashed>>
    /\ UNCHANGED driverVars

\* ---------------------------------------------------------------- connect

\* The early return of connect left out.
AlreadyConnected_Never == FALSE

\* if zkc.connected { return nil }
AlreadyConnected == connected

\* connect(), up to its select: the early return, zk.Connect, zkc.conn = conn
\* and the start of the session goroutine.
connect ==
    /\ OwnerIdle
    /\ IF AlreadyConnected
       THEN /\ step' = Step(Returned("connect", "ok", <<>>), NoCalls)
            /\ UNCHANGED <<conn, link, handshake>>
       ELSE \E ok \in BOOLEAN :
              IF ok
              THEN /\ Len(sessions) < MaxSessions
                   /\ sessions' = Append(sessions, [waitClosed |-> FALSE])
                   /\ connState' = "None"
                   /\ conn' = Len(sessions) + 1
                   /\ cpc' = "waiting"
                   /\ timerFired' = FALSE
                   /\ confirmed' = FALSE
                   /\ timedOut' = FALSE
                   /\ step' = Step(NoReturn, NoCalls)
              ELSE /\ step' = Step(Returned("connect", "ConnectErr", <<>>),
                                   NoCalls)
                   /\ UNCHANGED <<conn, link, handshake>>
    /\ UNCHANGED <<connected, watchers, chains, crashed>>
    /\ UNCHANGED driverVars

\* time.After(zkc.connTimeout) delivers.
connTimer ==
    /\ ~crashed
    /\ cpc = "waiting"
    /\ ~timerFired
    /\ timerFired' = TRUE
    /\ step' = Step(NoReturn, NoCalls)
    /\ UNCHANGED <<connected, conn, watchers, link, cpc, confirmed, timedOut,
                   chains, crashed>>
    /\ UNCHANGED driverVars

\* case <-waitConnCh: of connect's select.
connectConfirmed ==
    /\ ~crashed
    /\ cpc = "waiting"
    /\ sessions[conn].waitClosed
    /\ step' = Step(Returned("connect",
                              IF ~connected THEN "Unconfirmed" ELSE "ok",
                              <<>>), NoCalls)
    /\ cpc' = "idle"
    /\ timerFired' = FALSE
    /\ UNCHANGED <<connected, conn, watchers, link, confirmed, timedOut,
                   chains, crashed>>
    /\ UNCHANGED driverVars

\* case <-time.After(zkc.connTimeout): of connect's select.
connectTimeout ==
    /\ ~crashed
    /\ cpc = "waiting"
    /\ timerFired
    /\ step' = Step(Returned("connect", "Timeout", <<>>), NoCalls)
    /\ cpc' = "idle"
    /\ timerFired' = FALSE
    /\ timedOut' = TRUE
    /\ UNCHANGED <<connected, conn, watchers, link, confirmed, chains,
                   crashed>>
    /\ UNCHANGED driverVars

\* func (zkc *zkClient) disconnect() error { return nil }
disconnect == UNCHANGED <<connected, conn, sessions>>

\* One turn of the session goroutine of session s: it receives event
\* [State |-> state, Err |-> err] from the session channel and handles it.
\* close(waitConnCh) of a closed channel panics.
sessionEvent(s, state, err) ==
    /\ ~crashed
    /\ s \in 1..Len(sessions)
    /\ step' = Step(NoReturn, Calls(ReportEventErr(<<>>, err), "none",
                                    "none", state = "Disconnected"))
    /\ connState' = IF s = conn THEN state ELSE connState
    /\ confirmed' = (confirmed \/ (/\ cpc = "waiting"
                                   /\ ~timerFired
                                   /\ s = conn
                                   /\ state \in {"Connected",
                                                 "SyncConnected"}))
    /\ CASE state = "Connected" ->
              /\ connected' = TRUE
              /\ sessions' = [sessions EXCEPT ![s].waitClosed = TRUE]
              /\ crashed' = sessions[s].waitClosed
              /\ UNCHANGED conn
         [] state = "SyncConnected" ->
              /\ connected' = TRUE
              /\ UNCHANGED <<conn, sessions, crashed>>
         [] state = "Disconnected" ->
              /\ disconnect
              /\ UNCHANGED crashed
         [] OTHER ->
              /\ UNCHANGED <<connected, conn, sessions, crashed>>
    /\ UNCHANGED <<watchers, cpc, timerFired, timedOut, chains>>
    /\ UNCHANGED driverVars

\* ---------------------------------------------------------- watchChildren

\* if !zkc.connected { return errors.New("Not connected to server.") }
watchChildrenNotConnected == ~connected

\* The goroutine of a watch that zkc.conn.ChildrenW(watchPath) armed:
\* fired counts the events the chain has received, arms the watches armed.
Armed(path, fired, arms) ==
    [path |-> path, st |-> "armed", fired |-> fired, arms |-> arms]

\* watchChildren(path) called by the owner: the guard, ChildrenW, and the
\* start of the watch goroutine.
watchChildren(path) ==
    /\ OwnerIdle
    /\ IF watchChildrenNotConnected
       THEN /\ step' = Step(Returned("watchChildren", "NotConnected", <<>>),
                            NoCalls)
            /\ UNCHANGED chains
       ELSE \E ok \in BOOLEAN :
              /\ step' = Step(Returned("watchChildren",
                                       IF ok THEN "ok" ELSE "RequestErr",
                                       <<>>),
                              Calls(<<>>, "none", "ChildrenW", FALSE))
              /\ IF ok
                 THEN /\ Len(chains) < MaxChains
                      /\ chains' = Append(chains, Armed(path, 0, 1))
                 ELSE UNCHANGED chains
    /\ UNCHANGED <<connected, conn, watchers, link, handshake, crashed>>
    /\ UNCHANGED driverVars

\* The watch goroutine of chain c ends without a successor.
Ended(c, n) ==
    [chains EXCEPT ![c].st = "ended", ![c].fired = n]

\* err := zkc.watchChildren(path) of the watch goroutine of chain c, with
\* the report of its error: the guard, ChildrenW, the next goroutine.
\* errs holds the errors the goroutine has reported in this turn, cb the
\* callback it has called, n the events the chain has received.
rearm(c, errs, cb, n) ==
    IF watchChildrenNotConnected
    THEN /\ chains' = Ended(c, n)
         /\ step' = Step(NoReturn, Calls(Report(errs, "NotConnected"), cb,
                                         "none", FALSE))
    ELSE \E ok \in BOOLEAN :
           IF ok
           THEN /\ chains' = [chains EXCEPT
                                ![c] = Armed(chains[c].path, n,
                                             chains[c].arms + 1)]
                /\ step' = Step(NoReturn,
                                Calls(errs, cb, "ChildrenW", FALSE))
           ELSE /\ chains' = Ended(c, n)
                /\ step' = Step(NoReturn,
                                Calls(Report(errs, "RequestErr"), cb,
                                      "ChildrenW", FALSE))

\* One turn of the watch goroutine of chain c: the service fires the watch
\* and the goroutine receives event [Type |-> type, Err |-> err] from the
\* channel ChildrenW returned. It reports e.Err, and for a children-changed
\* event calls the children watcher, which returns later (inCallback) or
\* never (blocked); with no callback to call it goes on to re-arm.
watchFire(c, type, err) ==
    /\ ~crashed
    /\ c \in 1..Len(chains)
    /\ chains[c].st = "armed"
    /\ chains[c].fired < MaxFirings
    /\ LET errs == ReportEventErr(<<>>, err)
       IN IF type = "NodeChildrenChanged" /\ childrenWatcher
          THEN /\ step' = Step(NoReturn,
                               Calls(errs, WatchPath(chains[c].path),
                                     "none", FALSE))
               /\ \E blocks \in BOOLEAN :
                    chains' = [chains EXCEPT
                       ![c].st = IF blocks THEN "blocked" ELSE "inCallback",
                       ![c].fired = @ + 1]
          ELSE rearm(c, errs, "none", chains[c].fired + 1)
    /\ UNCHANGED <<connected, conn, watchers, link, handshake, crashed>>
    /\ UNCHANGED driverVars

\* childrenChanged returns to the watch goroutine of chain c, which re-arms.
childrenChangedReturn(c) ==
    /\ ~crashed
    /\ c \in 1..Len(chains)
    /\ chains[c].st = "inCallback"
    /\ rearm(c, <<>>, "none", chains[c].fired)
    /\ UNCHANGED <<connected, conn, watchers, link, handshake, crashed>>
    /\ UNCHANGED driverVars

\* ------------------------------------------------------------ list, data

\* The guard of list left out.
listNotConnected_Never == FALSE

\* if !zkc.connected { return nil, errors.New("Unable to list ...") }
listNotConnected == ~connected

\* list(path) when the service holds children under path: the guard,
\* zkc.conn.Children(path), sort.Strings(children).
listOf(children) ==
    /\ OwnerIdle
    /\ IF listNotConnected
       THEN step' = Step(Returned("list", "NotConnected", <<>>), NoCalls)
       ELSE \E ok \in BOOLEAN :
              step' = IF ok
                      THEN Replied(Returned("list", "ok",
                                            SortStrings(children)),
                                   Calls(<<>>, "none", "Children", FALSE),
                                   children)
                      ELSE Step(Returned("list", "RequestErr", <<>>),
                                Calls(<<>>, "none", "Children", FALSE))
    /\ UNCHANGED <<connected, conn, watchers, link, handshake, chains,
                   crashed>>
    /\ UNCHANGED driverVars

\* list(path), for the paths of the service's tree.
list == \E children \in ChildLists : listOf(children)

\* if !zkc.connected { return nil, errors.New("Unable to retrieve ...") }
dataNotConnected == ~connected

\* data(path): the guard, zkc.conn.Get(path).
data ==
    /\ OwnerIdle
    /\ IF dataNotConnected
       THEN step' = Step(Returned("data", "NotConnected", <<>>), NoCalls)
       ELSE \E ok \in BOOLEAN, payload \in DataValues :
              step' = IF ok
                      THEN Replied(Returned("data", "ok", payload),
                                   Calls(<<>>, "none", "Get", FALSE),
                                   payload)
                      ELSE Step(Returned("data", "RequestErr", <<>>),
                                Calls(<<>>, "none", "Get", FALSE))
    /\ UNCHANGED <<connected, conn, watchers, link, handshake, chains,
                   crashed>>
    /\ UNCHANGED driverVars

\* ------------------------------------------------------------------- Next

sessionLoop == \E s \in 1..Len(sessions), state \in States, err \in Errs :
                  sessionEvent(s, state, err)

watchChildrenCall == \E path \in Paths : watchChildren(path)

watchLoop == \E c \in 1..Len(chains), type \in EventTypes, err \in Errs :
                watchFire(c, type, err)

callbackReturns == \E c \in 1..Len(chains) : childrenChangedReturn(c)

Next ==
    \/ SetChildrenWatcher
    \/ SetErrorWatcher
    \/ connect
    \/ connTimer
    \/ connectConfirmed
    \/ connectTimeout
    \/ sessionLoop
    \/ watchChildrenCall
    \/ watchLoop
    \/ callbackReturns
    \/ list
    \/ data

Spec == Init /\ [][Next]_vars

\* ------------------------------------------------- list on every child list

\* The detector after connect() was confirmed by a Connected event.
ListInit ==
    /\ connected = TRUE
    /\ conn = 1
    /\ childrenWatcher = FALSE
    /\ errorWatcher = FALSE
    /\ sessions = <<[waitClosed |-> TRUE]>>
    /\ connState = "Connected"
    /\ cpc = "idle"
    /\ timerFired = FALSE
    /\ confirmed = TRUE
    /\ chains = <<>>
    /\ timedOut = FALSE
    /\ step = Step(Returned("connect", "ok", <<>>), NoCalls)
    /\ crashed = FALSE
    /\ NewMesosSchedulerDriver("")

\* The first call of list after connect, for every list of children.
listAny ==
    /\ step.ret.op = "connect"
    /\ \E children \in ChildSeqs : listOf(children)

ListNext == listAny

ListSpec == ListInit /\ [][ListNext]_vars

\* --------------------------------------------------- scheduler driver

\* Activity c calls op (Stop with its failover argument) and waits for the
\* driver's lock.
Invoke(c, op, failover) ==
    /\ pc[c] = Idle
    /\ pc' = [pc EXCEPT ![c] = At(op, "lock", FALSE, failover)]
    /\ dstep' = NoDStep
    /\ UNCHANGED <<status, stopped, driverConnected, frameworkID, lock,
                   stopCh, messenger>>
    /\ UNCHANGED detectorVars

\* Run(): Start() then Join() on the calling activity.
Run(c) ==
    /\ pc[c] = Idle
    /\ pc' = [pc EXCEPT ![c] = At("Start", "lock", TRUE, FALSE)]
    /\ dstep' = NoDStep
    /\ UNCHANGED <<status, stopped, driverConnected, frameworkID, lock,
                   stopCh, messenger>>
    /\ UNCHANGED detectorVars

\* Activity c takes the lock, to enter its call or to end its Join.
Acquire(c) ==
    /\ pc[c].at \in {"lock", "relock"}
    /\ lock = "free"
    /\ lock' = c
    /\ pc' = [pc EXCEPT ![c].at = IF @ = "lock" THEN "in" ELSE "end"]
    /\ dstep' = NoDStep
    /\ UNCHANGED <<status, stopped, driverConnected, frameworkID, stopCh,
                   messenger>>
    /\ UNCHANGED detectorVars

\* Activity c is in op, holding the lock.
In(c, op) == pc[c].op = op /\ pc[c].at = "in" /\ lock = c

\* Activity c leaves its call with status st and releases the lock.
Return(c, op, st, sent, msgr) ==
    /\ pc' = [pc EXCEPT ![c] = Idle]
    /\ lock' = "free"
    /\ dstep' = DStep(c, op, st, sent, msgr, <<>>)

\* A message sent through the messenger, with the outcome of Send.
Sent(msg, ok) == [msg |-> msg, ok |-> ok]

\* Start() when the messenger fails to start.
MessengerFailureStatus_Running == DRIVER_RUNNING

MessengerFailureStatus == DRIVER_NOT_STARTED

\* Start() when the RegisterFramework message cannot be sent.
RegistrationFailureStatus_Running == DRIVER_RUNNING

RegistrationFailureStatus == DRIVER_NOT_STARTED

\* Start is refused in every status but NOT_STARTED.
StartRefused_Terminal == status = DRIVER_RUNNING

StartRefused == status # DRIVER_NOT_STARTED

\* Start(): refused unless NOT_STARTED; starts the messenger, sends
\* RegisterFramework to the master, and with both done is RUNNING, not
\* stopped, with a new stop signal. As part of Run it goes on to Join.
Start(c) ==
    /\ In(c, "Start")
    /\ \E started \in BOOLEAN, ok \in BOOLEAN :
         LET st == IF StartRefused THEN status
                   ELSE IF ~started THEN MessengerFailureStatus
                   ELSE IF ~ok THEN RegistrationFailureStatus
                   ELSE DRIVER_RUNNING
             sent == IF ~StartRefused /\ started
                     THEN <<Sent("RegisterFramework", ok)>> ELSE <<>>
             msgr == IF StartRefused THEN "none"
                     ELSE IF started THEN "Start" ELSE "StartFailed"
         IN /\ status' = st
            /\ stopped' = IF StartRefused THEN stopped
                          ELSE IF st = DRIVER_RUNNING THEN FALSE ELSE stopped
            /\ stopCh' = IF ~StartRefused /\ st = DRIVER_RUNNING
                         THEN "open" ELSE stopCh
            /\ messenger' = IF ~StartRefused /\ started
                            THEN "started" ELSE messenger
            /\ dstep' = DStep(c, "Start", st, sent, msgr, <<>>)
    /\ lock' = "free"
    /\ pc' = [pc EXCEPT ![c] = IF pc[c].run
                                THEN At("Join", "lock", TRUE, FALSE)
                                ELSE Idle]
    /\ UNCHANGED <<driverConnected, frameworkID>>
    /\ UNCHANGED detectorVars

\* The status Stop leaves the driver in.
StopStatus_Aborted == DRIVER_ABORTED

StopStatus == DRIVER_STOPPED

StopNotRunning == status # DRIVER_RUNNING

\* Stop(failover): unless RUNNING returns the status; else unregisters
\* (not on failover), closes the stop signal, stops the messenger and is
\* stopped with status STOPPED.
Stop(c) ==
    /\ In(c, "Stop")
    /\ IF StopNotRunning
       THEN /\ Return(c, "Stop", status, <<>>, "none")
            /\ UNCHANGED <<status, stopped, stopCh, messenger>>
       ELSE \E ok \in BOOLEAN :
              /\ stopCh' = "closed"
              /\ messenger' = "stopped"
              /\ stopped' = TRUE
              /\ status' = StopStatus
              /\ Return(c, "Stop", StopStatus,
                        IF pc[c].failover THEN <<>>
                        ELSE <<Sent("UnregisterFramework", ok)>>,
                        "Stop")
    /\ UNCHANGED <<driverConnected, frameworkID>>
    /\ UNCHANGED detectorVars

AbortNotRunning == status # DRIVER_RUNNING

\* Abort(): unless RUNNING returns the status; else marks the driver not
\* connected, stops the messenger, signals the Join and Run callers and is
\* stopped with status ABORTED.
Abort(c) ==
    /\ In(c, "Abort")
    /\ IF AbortNotRunning
       THEN /\ Return(c, "Abort", status, <<>>, "none")
            /\ UNCHANGED <<status, stopped, stopCh, messenger,
                           driverConnected>>
       ELSE /\ driverConnected' = FALSE
            /\ stopCh' = "closed"
            /\ messenger' = "stopped"
            /\ stopped' = TRUE
            /\ status' = DRIVER_ABORTED
            /\ Return(c, "Abort", DRIVER_ABORTED, <<>>, "Stop")
    /\ UNCHANGED frameworkID
    /\ UNCHANGED detectorVars

\* Join keeps the lock while it waits for the stop signal.
JoinWaitLock_Held(c) == c

\* Join gives the lock up before it waits for the stop signal.
JoinWaitLock(c) == "free"

\* Join waits whatever the status.
JoinNotRunning_Never == FALSE

JoinNotRunning == status # DRIVER_RUNNING

\* Join(): unless RUNNING returns the status at once; else waits for the
\* stop signal.
Join(c) ==
    /\ In(c, "Join")
    /\ IF JoinNotRunning
       THEN Return(c, "Join", status, <<>>, "none")
       ELSE /\ pc' = [pc EXCEPT ![c].at = "wait"]
            /\ lock' = JoinWaitLock(c)
            /\ dstep' = NoDStep
    /\ UNCHANGED <<status, stopped, driverConnected, frameworkID, stopCh,
                   messenger>>
    /\ UNCHANGED detectorVars

\* The stop signal reaches activity c waiting in Join.
JoinSignalled(c) ==
    /\ pc[c].at = "wait"
    /\ stopCh = "closed"
    /\ pc' = [pc EXCEPT ![c].at = IF lock = c THEN "end" ELSE "relock"]
    /\ dstep' = NoDStep
    /\ UNCHANGED <<status, stopped, driverConnected, frameworkID, lock,
                   stopCh, messenger>>
    /\ UNCHANGED detectorVars

\* Join returns STOPPED whatever the driver ended in.
JoinFinal_Stopped == DRIVER_STOPPED

\* The final status: a driver still RUNNING when the stop signal fired ends
\* STOPPED.
JoinFinal == IF status = DRIVER_RUNNING THEN DRIVER_STOPPED ELSE status

\* Join after the stop signal: a driver still RUNNING stops (its messenger
\* too); Join returns the final status.
JoinEnd(c) ==
    /\ pc[c].at = "end"
    /\ lock = c
    /\ status' = IF status = DRIVER_RUNNING THEN DRIVER_STOPPED ELSE status
    /\ stopped' = TRUE
    /\ messenger' = IF status = DRIVER_RUNNING THEN "stopped" ELSE messenger
    /\ Return(c, "JoinEnd", JoinFinal, <<>>,
              IF status = DRIVER_RUNNING THEN "Stop" ELSE "none")
    /\ UNCHANGED <<driverConnected, frameworkID, stopCh>>
    /\ UNCHANGED detectorVars

\* The stop signal fires from outside Stop and Abort: close(driver.stopCh).
stopSignal ==
    /\ status = DRIVER_RUNNING
    /\ stopCh = "open"
    /\ stopCh' = "closed"
    /\ dstep' = NoDStep
    /\ UNCHANGED <<status, stopped, driverConnected, frameworkID, lock,
                   messenger, pc>>
    /\ UNCHANGED detectorVars

\* A failed send ends the driver.
AfterSend_Abort(ok) == IF ok THEN status ELSE DRIVER_ABORTED

\* The status after a task-control message was sent, delivered or not.
AfterSend(ok) == status

LaunchTasksNotRunning == status # DRIVER_RUNNING

\* LaunchTasks(offerID, tasks, filters): unless RUNNING returns the status;
\* else sends the launch message and returns the status.
LaunchTasks(c) ==
    /\ In(c, "LaunchTasks")
    /\ IF LaunchTasksNotRunning
       THEN /\ Return(c, "LaunchTasks", status, <<>>, "none")
            /\ UNCHANGED status
       ELSE \E ok \in BOOLEAN :
              /\ status' = AfterSend(ok)
              /\ Return(c, "LaunchTasks", AfterSend(ok),
                        <<Sent("LaunchTasks", ok)>>, "none")
    /\ UNCHANGED <<stopped, driverConnected, frameworkID, stopCh, messenger>>
    /\ UNCHANGED detectorVars

KillTaskNotRunning == status # DRIVER_RUNNING

\* KillTask(taskID): unless RUNNING returns the status; else sends the kill
\* message and returns the status.
KillTask(c) ==
    /\ In(c, "KillTask")
    /\ IF KillTaskNotRunning
       THEN /\ Return(c, "KillTask", status, <<>>, "none")
            /\ UNCHANGED status
       ELSE \E ok \in BOOLEAN :
              /\ status' = AfterSend(ok)
              /\ Return(c, "KillTask", AfterSend(ok),
                        <<Sent("KillTask", ok)>>, "none")
    /\ UNCHANGED <<stopped, driverConnected, frameworkID, stopCh, messenger>>
    /\ UNCHANGED detectorVars

\* The Registered callback is called a second time.
RegisteredCall_Twice(fid, ip) ==
    << [cb |-> "Registered", id |-> fid, ip |-> ip],
       [cb |-> "Registered", id |-> fid, ip |-> ip] >>

\* sched.Registered(driver, frameworkId, masterInfo)
RegisteredCall(fid, ip) == << [cb |-> "Registered", id |-> fid, ip |-> ip] >>

\* The callbacks the dispatch point calls for a message of kind.
Callbacks(kind, fid, ip) ==
    CASE kind = "FrameworkRegistered" -> RegisteredCall(fid, ip)
      [] kind = "FrameworkReregistered" ->
            << [cb |-> "Reregistered", id |-> "", ip |-> ip] >>
      [] kind = "ResourceOffers" ->
            << [cb |-> "ResourceOffers", id |-> "", ip |-> 0] >>
      [] OTHER -> <<>>

\* The messenger delivers a message of kind, carrying framework id fid and
\* master ip, to the dispatch point, which handles it under the lock: a
\* registration marks the driver connected (and records the framework id if
\* none is set); the callback of the kind is called; an unknown message is
\* dropped.
dispatch(kind, fid, ip) ==
    /\ messenger = "started"
    /\ lock = "free"
    /\ driverConnected' =
          (driverConnected
           \/ kind \in {"FrameworkRegistered", "FrameworkReregistered"})
    /\ frameworkID' = IF kind = "FrameworkRegistered" /\ frameworkID = ""
                      THEN fid ELSE frameworkID
    /\ dstep' = DStep("messenger", kind, "none", <<>>, "none",
                      Callbacks(kind, fid, ip))
    /\ UNCHANGED <<status, stopped, lock, stopCh, messenger, pc>>
    /\ UNCHANGED detectorVars

\* ------------------------------------------------------------ driver: Next

calls == \E c \in Callers, op \in Ops, failover \in BOOLEAN :
            /\ failover => op = "Stop"
            /\ Invoke(c, op, failover)

runs == \E c \in Callers : Run(c)

acquires == \E c \in Callers : Acquire(c)

starts == \E c \in Callers : Start(c)

stops == \E c \in Callers : Stop(c)

aborts == \E c \in Callers : Abort(c)

joins == \E c \in Callers : Join(c)

joinsSignalled == \E c \in Callers : JoinSignalled(c)

joinsEnd == \E c \in Callers : JoinEnd(c)

launches == \E c \in Callers : LaunchTasks(c)

kills == \E c \in Callers : KillTask(c)

dispatches == \E kind \in EventKinds, fid \in FrameworkIDs, ip \in MasterIps :
                 dispatch(kind, fid, ip)

DriverInit ==
    /\ newZkClient
    /\ \E fid \in {"", "some-framework-id-uuid"} :
          NewMesosSchedulerDriver(fid)

DriverNext ==
    \/ calls
    \/ runs
    \/ acquires
    \/ starts
    \/ stops
    \/ aborts
    \/ joins
    \/ joinsSignalled
    \/ joinsEnd
    \/ stopSignal
    \/ launches
    \/ kills
    \/ dispatches

DriverSpec == DriverInit /\ [][DriverNext]_vars

\* Activity c goes on with the call it is in: the scheduler runs every
\* activity that can take a step.
proceeds(c) ==
    \/ Start(c)
    \/ Stop(c)
    \/ Abort(c)
    \/ Join(c)
    \/ JoinSignalled(c)
    \/ JoinEnd(c)
    \/ LaunchTasks(c)
    \/ KillTask(c)

\* The driver with its scheduling: an activity in a call goes on, and one
\* that asks for the lock again and again while it comes free gets it.
\* Nothing obliges a caller to call, the stop signal to fire from outside or
\* the messenger to deliver.
DriverFairness ==
    \A c \in Callers : SF_vars(Acquire(c)) /\ WF_vars(proceeds(c))

DriverFairSpec == DriverSpec /\ DriverFairness

\* ------------------------------------------------------------ properties

\* A watch of chain c is armed at the service.
WatchPending(c) == chains[c].st = "armed"

\* C1 (self-rearming watch): with a children watcher registered, a chain
\* that has received and handled an event still has a watch armed, so that
\* the next change on the path reaches the callback again.
C1_SelfRearmingWatch ==
    \A c \in 1..Len(chains) :
        (/\ childrenWatcher
         /\ chains[c].fired >= 1
         /\ chains[c].st \notin {"inCallback", "blocked"})
        => WatchPending(c)

\* C2 (a blocking callback does not prevent re-arming): a chain whose
\* children-changed callback never returns has armed a watch again for the
\* event that callback was invoked for.
C2_BlockingCallbackRearms ==
    \A c \in 1..Len(chains) :
        chains[c].st = "blocked" => chains[c].arms = chains[c].fired + 1

\* C3 (re-arming is unconditional): once the goroutine of a chain is done
\* with an event, whatever its type and error, one more watch has been armed
\* than events received and a watch is pending.
C3_RearmAfterEveryFiring ==
    \A c \in 1..Len(chains) :
        chains[c].st # "inCallback"
        => (chains[c].arms = chains[c].fired + 1 /\ WatchPending(c))

\* C4 (outcome of connect): a connect that waited returns success exactly
\* when its session reported Connected or SyncConnected before the timer
\* fired, and then connected is true; it returns the timeout error only when
\* no such report came in time; a failed zk.Connect returns that error.
C4_ConnectOutcome ==
    [][/\ connectConfirmed
          => (step'.ret = Returned("connect", "ok", <<>>)
              /\ connected' /\ confirmed)
       /\ connectTimeout => ~confirmed
       /\ (connect /\ ~connected /\ cpc' = "idle")
          => step'.ret = Returned("connect", "ConnectErr", <<>>)]_vars

\* C5 (the loser of the connect race is a no-op): after connect returned the
\* timeout error, a Connected event of its session changes nothing of the
\* detector, reports no error and raises none.
C5_LateNotificationNoOp ==
    [][(cpc = "idle" /\ timedOut /\ sessionEvent(conn, "Connected", "nil"))
       => (connected' = connected /\ step'.calls.errs = <<>>
           /\ ~crashed')]_vars

\* C6 (Expired is terminal): once the session of zkc.conn has reported
\* Expired, list, data and watchChildren are refused as not connected, and
\* connect opens a new session (or returns zk.Connect's error).
C6_ExpiredIsTerminal ==
    [][connState = "Expired"
       => (/\ (list \/ data \/ watchChildrenCall)
              => step'.ret.res = "NotConnected"
           /\ connect => (\/ Len(sessions') = Len(sessions) + 1
                          \/ step'.ret.res = "ConnectErr"))]_vars

\* C7 (Disconnected is torn down and surfaced): on every Disconnected event,
\* with an error watcher registered, disconnect is called, no session is
\* opened, and the error watcher is called once.
C7_DisconnectSurfaced ==
    [][\A s \in 1..Len(sessions), err \in Errs :
          (errorWatcher /\ sessionEvent(s, "Disconnected", err))
          => (/\ step'.calls.disc
              /\ sessions' = sessions
              /\ Len(step'.calls.errs) = 1)]_vars

\* C8 (asynchronous errors): with an error watcher registered, the error of
\* a session event is handed to it exactly once; a step that reports an
\* error returns nothing to the owner and ends no watch goroutine chain.
C8_AsyncErrorsDelivered ==
    [][errorWatcher
       => (/\ \A s \in 1..Len(sessions), state \in States :
                 sessionEvent(s, state, "EventErr")
                 => step'.calls.errs = <<"EventErr">>
           /\ step'.calls.errs # <<>>
              => (/\ step'.ret = NoReturn
                  /\ \A c \in 1..Len(chains) :
                        chains'[c].st = "ended" => chains[c].st = "ended"))
      ]_vars

\* C9 (idempotent connect): connect on a connected detector returns nil,
\* opens no session, sends nothing, starts no goroutine and leaves connected
\* true.
C9_IdempotentConnect ==
    [][(connected /\ connect)
       => (/\ step' = Step(Returned("connect", "ok", <<>>), NoCalls)
           /\ connected'
           /\ UNCHANGED <<conn, sessions, connState, cpc, chains>>)]_vars

\* connect has returned nil on a detector that was connected, with its one
\* session and a watch chain in place.
C9_Witness ==
    /\ step.ret = Returned("connect", "ok", <<>>)
    /\ cpc = "idle"
    /\ connected
    /\ Len(chains) >= 1
    /\ Len(sessions) = 1

\* C10 (not-connected guard): on a detector that has never been connected,
\* watchChildren, list and data return the not-connected error at once,
\* send no request and arm no watch; such a detector has no watch goroutine.
C10_NotConnectedGuard ==
    /\ [](~connected => chains = <<>>)
    /\ [][~connected
          => (/\ list => step'.ret = Returned("list", "NotConnected", <<>>)
              /\ data => step'.ret = Returned("data", "NotConnected", <<>>)
              /\ watchChildrenCall
                 => step'.ret = Returned("watchChildren", "NotConnected",
                                         <<>>)
              /\ (list \/ data \/ watchChildrenCall)
                 => (/\ step'.calls = NoCalls
                     /\ UNCHANGED <<connected, conn, link, handshake,
                                    chains>>))]_vars

\* list has returned the not-connected error on an unconnected detector.
C10_Witness ==
    /\ ~connected
    /\ step = Step(Returned("list", "NotConnected", <<>>), NoCalls)
    /\ cpc = "idle"
    /\ chains = <<>>

\* s holds the elements of t, each as often (both without repetition here:
\* the children of a node have distinct names).
SameNames(s, t) ==
    /\ Len(s) = Len(t)
    /\ {s[i] : i \in 1..Len(s)} = {t[i] : i \in 1..Len(t)}
    /\ \A i, j \in 1..Len(s) : i # j => s[i] # s[j]

\* No name of s comes after a smaller one.
Ascending(s) == \A i, j \in 1..Len(s) : i < j => StrLess(s[i], s[j])

\* C11 (sorted listing): list on a connected detector returns the names the
\* service reported, none added or dropped, in ascending order.
C11_SortedListing ==
    (connected /\ step.ret.op = "list" /\ step.ret.res = "ok")
    => (/\ SameNames(step.ret.val, step.reply)
        /\ Ascending(step.ret.val))

\* list has returned [a, d, x] for the children x, a, d.
C11_Witness ==
    /\ connected
    /\ step.ret = Returned("list", "ok", << <<97>>, <<100>>, <<120>> >>)
    /\ step.reply = << <<120>>, <<97>>, <<100>> >>

\* Violated under Spec exactly when connect reaches the state ListInit.
ListInitUnreached == ~ListInit

\* C12 (status machine): the status changes only from NOT_STARTED to RUNNING
\* in a Start that returns RUNNING, from RUNNING to STOPPED in Stop or in a
\* Join that the stop signal ended, and from RUNNING to ABORTED in Abort;
\* STOPPED and ABORTED are never left, whatever is called.
C12_StatusMonotone ==
    [][status' # status
       => \/ /\ status = DRIVER_NOT_STARTED
             /\ status' = DRIVER_RUNNING
             /\ starts
             /\ dstep'.ret = DRIVER_RUNNING
          \/ /\ status = DRIVER_RUNNING
             /\ status' = DRIVER_STOPPED
             /\ stops \/ joinsEnd
          \/ /\ status = DRIVER_RUNNING
             /\ status' = DRIVER_ABORTED
             /\ aborts]_vars

\* Start has been called on a stopped or aborted driver and has returned
\* that status.
C12_Witness ==
    /\ dstep.op = "Start"
    /\ dstep.ret \in {DRIVER_STOPPED, DRIVER_ABORTED}
    /\ status = dstep.ret

\* C13 (Start failure rollback): a Start in which the messenger fails to
\* start returns NOT_STARTED, leaves the status NOT_STARTED and stopped
\* true, and sends no registration message.
C13_StartFailureRollback ==
    [][(starts /\ dstep'.msgr = "StartFailed")
       => (/\ dstep'.ret = DRIVER_NOT_STARTED
           /\ status' = DRIVER_NOT_STARTED
           /\ stopped /\ stopped'
           /\ dstep'.sent = <<>>)]_vars

\* Start has returned after the messenger failed to start.
C13_Witness ==
    /\ dstep.op = "Start"
    /\ dstep.msgr = "StartFailed"
    /\ dstep.ret = DRIVER_NOT_STARTED
    /\ stopped

\* The messenger started and the RegisterFramework message could not be
\* sent, in the Start step just taken.
RegistrationFailed ==
    /\ starts
    /\ dstep'.msgr = "Start"
    /\ dstep'.sent = <<Sent("RegisterFramework", FALSE)>>

C15_RegistrationFailureNotStarted ==
    [][RegistrationFailed
       => (/\ dstep'.ret = DRIVER_NOT_STARTED
           /\ status' = DRIVER_NOT_STARTED
           /\ stopped /\ stopped')]_vars

\* The driver after such a Start: NOT_STARTED and stopped.
C15_Witness ==
    /\ dstep.op = "Start"
    /\ dstep.msgr = "Start"
    /\ dstep.sent = <<Sent("RegisterFramework", FALSE)>>
    /\ status = DRIVER_NOT_STARTED
    /\ stopped

\* C16 (fire-and-forget task control): LaunchTasks and KillTask on a RUNNING
\* driver send their message and return RUNNING whether or not the send
\* succeeds; status and stopped stay as they were.
C16_FireAndForget ==
    [][(status = DRIVER_RUNNING /\ (launches \/ kills))
       => (/\ dstep'.ret = DRIVER_RUNNING
           /\ Len(dstep'.sent) = 1
           /\ status' = DRIVER_RUNNING
           /\ stopped' = stopped
           /\ ~stopped')]_vars

\* LaunchTasks has returned RUNNING although its send failed.
C16_Witness ==
    /\ dstep.op = "LaunchTasks"
    /\ dstep.sent = <<Sent("LaunchTasks", FALSE)>>
    /\ dstep.ret = DRIVER_RUNNING
    /\ status = DRIVER_RUNNING

\* C17 (pre-start guard): LaunchTasks, KillTask, Stop and Join on a driver
\* that is NOT_STARTED return NOT_STARTED in that step (the caller is out of
\* the call), send nothing, do not touch the messenger and leave status,
\* stopped, connected and the stop signal as they were.
C17_PreStartGuard ==
    [][(status = DRIVER_NOT_STARTED
        /\ (launches \/ kills \/ stops \/ joins))
       => (/\ dstep'.ret = DRIVER_NOT_STARTED
           /\ dstep'.by \in Callers
           /\ pc'[dstep'.by] = Idle
           /\ lock' = "free"
           /\ dstep'.sent = <<>>
           /\ dstep'.msgr = "none"
           /\ dstep'.cb = <<>>
           /\ UNCHANGED <<status, stopped, driverConnected, frameworkID,
                          stopCh, messenger>>)]_vars

\* Join has returned NOT_STARTED on a driver never started.
C17_Witness ==
    /\ dstep.op = "Join"
    /\ dstep.ret = DRIVER_NOT_STARTED
    /\ status = DRIVER_NOT_STARTED
    /\ messenger = "new"
    /\ stopped
    /\ \A c \in Callers : pc[c].at # "wait"

\* C18 (Abort vs Stop): on a RUNNING driver Abort leaves ABORTED and Stop
\* leaves STOPPED, both stopped; a Join that waited returns the terminal
\* status the driver is in, ABORTED after Abort and STOPPED after Stop, and
\* no Join returns RUNNING.
C18_AbortVsStop ==
    [][/\ (status = DRIVER_RUNNING /\ aborts)
          => (/\ status' = DRIVER_ABORTED
              /\ stopped'
              /\ stopCh' = "closed"
              /\ dstep'.ret = DRIVER_ABORTED)
       /\ (status = DRIVER_RUNNING /\ stops)
          => (/\ status' = DRIVER_STOPPED
              /\ stopped'
              /\ stopCh' = "closed"
              /\ dstep'.ret = DRIVER_STOPPED)
       /\ joinsEnd
          => (/\ dstep'.ret = status'
              /\ dstep'.ret \in {DRIVER_STOPPED, DRIVER_ABORTED}
              /\ status = DRIVER_ABORTED => dstep'.ret = DRIVER_ABORTED
              /\ stopped')
       /\ (joins /\ dstep'.ret # "none")
          => (dstep'.ret = status /\ dstep'.ret # DRIVER_RUNNING)]_vars

\* A Join that waited has returned ABORTED on an aborted driver.
C18_Witness ==
    /\ dstep.op = "JoinEnd"
    /\ dstep.ret = DRIVER_ABORTED
    /\ status = DRIVER_ABORTED
    /\ stopped

\* C19 (registration): the connected flag is false after construction, Start
\* leaves it as it is, and it becomes true only when a FrameworkRegistered or
\* FrameworkReregistered event is dispatched; a dispatched FrameworkRegistered
\* event calls Registered exactly once, with the framework id and the leader
\* info of the event, and leaves the driver connected.
C19_Registration ==
    [][/\ messenger = "new" => ~driverConnected
       /\ starts => (driverConnected' = driverConnected)
       /\ (~driverConnected /\ driverConnected')
          => (\E kind \in {"FrameworkRegistered", "FrameworkReregistered"},
                 fid \in FrameworkIDs, ip \in MasterIps :
                    dispatch(kind, fid, ip))
       /\ \A fid \in FrameworkIDs, ip \in MasterIps :
             dispatch("FrameworkRegistered", fid, ip)
             => (/\ driverConnected'
                 /\ dstep'.cb =
                       << [cb |-> "Registered", id |-> fid, ip |-> ip] >>)]_vars

\* After a Start that left the driver RUNNING and not connected, a
\* FrameworkRegistered event has been dispatched: one Registered call, and the
\* driver is connected.
C19_Witness ==
    /\ status = DRIVER_RUNNING
    /\ dstep.op = "FrameworkRegistered"
    /\ Len(dstep.cb) = 1
    /\ dstep.cb[1].cb = "Registered"
    /\ dstep.cb[1].ip = 123456
    /\ driverConnected

\* C20 (Join waits without the lock): an activity waiting in Join never holds
\* the lock; with one activity waiting in Join on a RUNNING driver and another
\* about to take the lock for Stop or Abort, that Stop or Abort returns with
\* the stop signal fired and the driver no longer RUNNING, and the Join
\* returns a terminal status.
C20_JoinWaitsUnlocked ==
    /\ [](\A c \in Callers : pc[c].at = "wait" => lock # c)
    /\ \A c \in Callers : \A d \in Callers \ {c} :
          /\ (/\ pc[c].at = "wait"
              /\ status = DRIVER_RUNNING
              /\ pc[d].op \in {"Stop", "Abort"}
              /\ pc[d].at = "lock")
             ~> (/\ dstep.by = d
                 /\ dstep.op \in {"Stop", "Abort"}
                 /\ dstep.ret \in {DRIVER_STOPPED, DRIVER_ABORTED}
                 /\ stopCh = "closed")
          /\ (/\ pc[c].at = "wait"
              /\ status = DRIVER_RUNNING
              /\ pc[d].op \in {"Stop", "Abort"}
              /\ pc[d].at = "lock")
             ~> (/\ dstep.by = c
                 /\ dstep.op = "JoinEnd"
                 /\ dstep.ret \in {DRIVER_STOPPED, DRIVER_ABORTED})

\* While an activity waits in Join, another's Stop or Abort has taken the
\* lock, ended the driver and returned.
C20_Witness ==
    /\ dstep.op \in {"Stop", "Abort"}
    /\ dstep.msgr = "Stop"
    /\ dstep.ret \in {DRIVER_STOPPED, DRIVER_ABORTED}
    /\ stopCh = "closed"
    /\ lock = "free"
    /\ \E c \in Callers \ {dstep.by} : pc[c].op = "Join" /\ pc[c].at = "wait"

\* C21 (no abnormal termination): whatever session-state notifications are
\* delivered after connect(), the second Connected of one session included,
\* the process never ends by a panic.
C21_NoAbnormalTermination == ~crashed

\* C22 (connected tracks the session): once a session-state notification has
\* been handled, connected is true only if that notification was Connected or
\* SyncConnected, so that after Disconnected or Expired the guards of
\* watchChildren, list and data refuse.
C22_ConnectedTracksSession ==
    [][\A s \in 1..Len(sessions), state \in States, err \in Errs :
          sessionEvent(s, state, err)
          => (connected' => state \in {"Connected", "SyncConnected"})]_vars

====
